---- MODULE Spec2Model ----
(***************************************************************************)
(* Verification model of the Evolution Data Pipeline of echos-backend:     *)
(*   - api/etymology_service.py : EtymologyService (retrying OpenRouter    *)
(*     client, response parser, lru_cache'd generation, input validation)  *)
(*   - api/utils.py             : similarity search over stored items      *)
(*                                                                         *)
(* Representation of Python values                                         *)
(*   str (word, era label, JSON string) : a sequence of characters         *)
(*   LLM response text                  : a sequence of lines (what        *)
(*       str.split("\n") yields); a line is a sequence of atoms; an atom   *)
(*       is a code fence ```, the word json, one complete JSON value, or   *)
(*       junk (text that is no JSON value, e.g. an unbalanced "{").        *)
(*       The empty str is the single empty line << <<>> >>.                *)
(*   JSON value                         : a record [t, s, a, o]            *)
(***************************************************************************)
EXTENDS Integers, Sequences, FiniteSets, TLC

\* ------------------------------------------------------------------ bounds
NumThreads == 2      \* concurrent callers of generate_word_evolution
MaxElems == 2        \* longest JSON array in a generated response
MaxItems == 3        \* most items of one era handed to top_similar_in_era
MaxDriftItems == 2   \* most items of one era handed to compute_centroid
ExtraKeys == 2       \* distinct cache keys requested beyond the cache's capacity

\* ------------------------------------------------------- program constants
MAX_EXAMPLES_PER_ERA == 20
StopAfterAttempt == 3
CacheMaxSize == 100
DEFAULT_TOP_N == 6
WaitMultiplier == 1
WaitMin == 2
WaitMax == 10
EraTopN == 10

\* ------------------------------------------------------------ python str
RECURSIVE LStrip(_)
LStrip(s) == IF s # <<>> /\ Head(s) = " " THEN LStrip(Tail(s)) ELSE s

RECURSIVE RStrip(_)
RStrip(s) ==
    IF s # <<>> /\ s[Len(s)] = " " THEN RStrip(SubSeq(s, 1, Len(s) - 1)) ELSE s

Strip(s) == RStrip(LStrip(s))

LowerChar(c) == IF c = "A" THEN "a" ELSE IF c = "B" THEN "b" ELSE c

Lower(s) == [i \in 1..Len(s) |-> LowerChar(s[i])]

\* ------------------------------------------------------------ JSON values
JNull == [t |-> "null", s |-> <<>>, a |-> <<>>, o |-> <<>>]
JNum == [t |-> "num", s |-> <<>>, a |-> <<>>, o |-> <<>>]
JStr(str) == [t |-> "str", s |-> str, a |-> <<>>, o |-> <<>>]
JArr(elems) == [t |-> "arr", s |-> <<>>, a |-> elems, o |-> <<>>]
\* members: sequence of [k |-> key, v |-> value], keys distinct (a dict)
JObj(members) == [t |-> "obj", s |-> <<>>, a |-> <<>>, o |-> members]

JKeys(d) == {d.o[i].k : i \in DOMAIN d.o}

\* ------------------------------------------------------- response text
Fence == [a |-> "fence", d |-> JNull]
JsonTag == [a |-> "json", d |-> JNull]
Junk == [a |-> "junk", d |-> JNull]
Doc(v) == [a |-> "doc", d |-> v]

EmptyStr == << <<>> >>

RECURSIVE DropLeadingBlank(_)
DropLeadingBlank(ls) ==
    IF ls # <<>> /\ Head(ls) = <<>> THEN DropLeadingBlank(Tail(ls)) ELSE ls

RECURSIVE DropTrailingBlank(_)
DropTrailingBlank(ls) ==
    IF ls # <<>> /\ ls[Len(ls)] = <<>>
    THEN DropTrailingBlank(SubSeq(ls, 1, Len(ls) - 1))
    ELSE ls

\* "\n".join(lines)
JoinLines(ls) == IF ls = <<>> THEN EmptyStr ELSE ls

\* content.strip()
TextStrip(text) == JoinLines(DropTrailingBlank(DropLeadingBlank(text)))

\* content.startswith("```") / content.startswith("json")
StartsWith(text, kind) == text[1] # <<>> /\ text[1][1].a = kind

\* content[4:] when content starts with "json"
DropTag(text) == [text EXCEPT ![1] = Tail(@)]

StripFence(content) ==
    LET c0 == TextStrip(content) IN
    IF StartsWith(c0, "fence")
    THEN LET c1 == JoinLines(SubSeq(c0, 2, Len(c0) - 1)) IN
         IF StartsWith(c1, "json") THEN TextStrip(DropTag(c1)) ELSE c1
    ELSE c0

RECURSIVE Flatten(_)
Flatten(ls) == IF ls = <<>> THEN <<>> ELSE Head(ls) \o Flatten(Tail(ls))

\* json.loads: whitespace around one JSON value is allowed, anything else
\* raises JSONDecodeError
JsonLoads(content) ==
    LET at == Flatten(content) IN
    IF Len(at) = 1 /\ at[1].a = "doc"
    THEN [ok |-> TRUE, data |-> at[1].d]
    ELSE [ok |-> FALSE, data |-> JNull]

AllStr(elems) == \A i \in DOMAIN elems : elems[i].t = "str"

ValidateErasNoElementCheck(members) ==
    \A i \in DOMAIN members : members[i].v.t = "arr"

\* the loop over data.items(): the first offending era raises ValueError
RECURSIVE ValidateEras(_)
ValidateEras(members) ==
    IF members = <<>> THEN TRUE
    ELSE LET examples == Head(members).v IN
         IF examples.t # "arr" THEN FALSE
         ELSE IF ~AllStr(examples.a) THEN FALSE
         ELSE ValidateEras(Tail(members))

ParseFailure == [ok |-> FALSE, data |-> JNull]

ParseResponse(content) ==
    LET j == JsonLoads(StripFence(content)) IN
    IF ~j.ok THEN ParseFailure
    ELSE IF j.data.t # "obj" THEN ParseFailure
    ELSE IF ~ValidateEras(j.data.o) THEN ParseFailure
    ELSE [ok |-> TRUE, data |-> j.data]

\* ------------------------------------------------------- service inputs
E1 == <<"e">>
E2 == <<"f">>
GoodDoc == JObj(<< [k |-> E1, v |-> JArr(<<JStr(<<"x">>)>>)] >>)
OtherEraDoc == JObj(<< [k |-> E2, v |-> JArr(<<JStr(<<"y">>)>>)] >>)

\* a fenced answer for era E1, a bare answer that omits E1 and has E2
\* instead, and an unbalanced document
GoodText == << <<Fence, JsonTag>>, <<Doc(GoodDoc)>>, <<Fence>> >>
OtherEraText == << <<Doc(OtherEraDoc)>> >>
BadText == << <<Junk>> >>
SvcTexts == {GoodText, OtherEraText, BadText}

ArgWords == { <<>>, <<" ">>, <<"a">>, <<" ", "A">> }
ArgEraLists == { <<>>, <<E1>>, << <<" ">> >>, <<E1, <<>> >> }
ArgNs == {0, 1, MAX_EXAMPLES_PER_ERA, MAX_EXAMPLES_PER_ERA + 1}
AllArgs == [word : ArgWords, eras : ArgEraLists, n : ArgNs]
NoReq == [word |-> <<>>, eras |-> <<>>, n |-> 0]

\* what self.client.chat.completions.create can do: return a message
\* content (possibly empty), raise the builtin TimeoutError, raise the SDK's
\* own timeout exception (openai.APITimeoutError, an Exception that is not a
\* TimeoutError), or raise any other exception
Content(text) == [kind |-> "content", text |-> text]
Raised(cls) == [kind |-> cls, text |-> EmptyStr]
Responses ==
    {Content(x) : x \in SvcTexts \cup {EmptyStr}}
        \cup {Raised(c) : c \in {"TimeoutError", "APITimeoutError", "APIError"}}

\* ------------------------------------------------------------ validation
ValidateArgsNoUpperBound(word, eras, n) ==
    /\ ~(word = <<>> \/ Strip(word) = <<>>)
    /\ eras # <<>>
    /\ ~(n < 1)
    /\ \A i \in DOMAIN eras : Strip(eras[i]) # <<>>

\* generate_word_evolution, "Input validation": TRUE when no ValueError
ValidateArgs(word, eras, n) ==
    IF word = <<>> \/ Strip(word) = <<>> THEN FALSE
    ELSE IF eras = <<>> THEN FALSE
    ELSE IF n < 1 \/ n > MAX_EXAMPLES_PER_ERA THEN FALSE
    ELSE \A i \in DOMAIN eras : Strip(eras[i]) # <<>>

\* word = word.strip().lower()
NormalizeWord(word) == Lower(Strip(word))

KeyOfRawWord(r) == [word |-> r.word, eras |-> r.eras, n |-> r.n]

\* the arguments of _cached_generation(word, tuple(eras), num_examples)
KeyOf(r) == [word |-> NormalizeWord(r.word), eras |-> r.eras, n |-> r.n]

AllKeys == {KeyOf(r) : r \in {x \in AllArgs : ValidateArgs(x.word, x.eras, x.n)}}

\* ------------------------------------------------------------- lru_cache
\* cache: sequence of [key, val], least recently used first
CacheHasNever(c, k) == FALSE

CacheHas(c, k) == \E i \in DOMAIN c : c[i].key = k

CacheGet(c, k) == c[CHOOSE i \in DOMAIN c : c[i].key = k].val

CacheTouchNot(c, k) == c

\* a hit moves the entry to the most recently used end
CacheTouch(c, k) ==
    SelectSeq(c, LAMBDA e : e.key # k) \o SelectSeq(c, LAMBDA e : e.key = k)

CacheInsertNoStore(c, k, v) == c

\* store the result of a call that returned; a key stored meanwhile by
\* another caller is kept, a full cache drops its oldest entry
CacheInsert(c, k, v) ==
    IF CacheHas(c, k) THEN c
    ELSE IF Len(c) >= CacheMaxSize THEN Append(Tail(c), [key |-> k, val |-> v])
    ELSE Append(c, [key |-> k, val |-> v])

\* ------------------------------------------------------ _call_openrouter
ClassifyEmptyIsContent(resp) ==
    IF resp.kind = "content" THEN "ok"
    ELSE IF resp.kind = "TimeoutError" THEN "TimeoutError"
    ELSE "OpenRouterError"

ClassifyAlwaysOk(resp) == "ok"

ClassifyNoWrap(resp) ==
    IF resp.kind = "content"
    THEN IF resp.text = EmptyStr THEN "OpenRouterError" ELSE "ok"
    ELSE resp.kind

\* one attempt: "ok" (content returned) or the exception class raised
Classify(resp) ==
    IF resp.kind = "content"
    THEN IF resp.text = EmptyStr THEN "OpenRouterError" ELSE "ok"
    ELSE IF resp.kind = "TimeoutError" THEN "TimeoutError"
    ELSE "OpenRouterError"

\* retry_if_exception_type((OpenRouterError, TimeoutError))
RetryIf(cls) == cls \in {"OpenRouterError", "TimeoutError"}

StopAfterOneMore(attemptNumber) == attemptNumber > StopAfterAttempt

\* stop_after_attempt(3)
StopNow(attemptNumber) == attemptNumber >= StopAfterAttempt

RECURSIVE Pow2(_)
Pow2(k) == IF k = 0 THEN 1 ELSE 2 * Pow2(k - 1)

\* wait_exponential(multiplier=1, min=2, max=10) after the failed attempt
\* attempt_number: current tenacity releases take 2 ** (attempt_number - 1)
\* as the exponential, older ones 2 ** attempt_number; the source pins none
\* and clamps it: max(max(0, min), min(result, max))
WaitExponential(attempt_number) ==
    LET floor == IF WaitMin < 0 THEN 0 ELSE WaitMin
        capped(result) == IF result < WaitMax THEN result ELSE WaitMax
        clamp(result) == IF capped(result) < floor THEN floor ELSE capped(result)
    IN {clamp(WaitMultiplier * Pow2(attempt_number - 1)),
        clamp(WaitMultiplier * Pow2(attempt_number))}

\* ------------------------------------------------- generate, after the call
Returned(data) == [err |-> "none", at |-> "return", data |-> data]
Failed(cls, where) == [err |-> cls, at |-> where, data |-> JNull]
NoOutcome == [err |-> "none", at |-> "none", data |-> JNull]

Range(f) == {f[i] : i \in DOMAIN f}

FinishRequireAllEras(text, eras) ==
    LET p == ParseResponse(text) IN
    IF ~p.ok THEN Failed("ValueError", "parse")
    ELSE IF Range(eras) \ JKeys(p.data) # {} THEN Failed("ValueError", "parse")
    ELSE Returned(p.data)

\* parse, compare with the requested eras (a warning only), return
Finish(text, eras) ==
    LET p == ParseResponse(text) IN
    IF ~p.ok THEN Failed("ValueError", "parse")
    ELSE LET missing_eras == Range(eras) \ JKeys(p.data) IN
         Returned(p.data)

\* -------------------------------------------------- embedding store: names
E3 == <<"e", "e">>
StoreEras == {E1, E2, E3}

DotJson == <<".", "j", "s", "o", "n">>

\* f"{era}.json"
FileOf(era) == era \o DotJson

\* a file of the concept directory that is no era file
StrayName == <<"e", ".", "t">>

FileNames == {FileOf(e) : e \in StoreEras} \cup {StrayName}

\* ------------------------------------------------------------------ state
VARIABLES
    cacheOn,    \* settings.cache_llm_responses
    cache,      \* the lru_cache of _cached_generation
    pc,         \* per caller: "idle", "calling", "backoff", "done"
    req,        \* per caller: the arguments of its current / last call
    tries,      \* per caller: the upstream responses of the call, in order
    content,    \* per caller: <<raw text>> once the call has one, else <<>>
    outcome,    \* per caller: what the call returned or raised
    missed,     \* per caller: the key was absent from the cache at the start
    inflight,   \* per cache key: upstream calls issued and not yet answered
    waits,      \* per caller: the backoff delays of the call, in seconds
    used,       \* history: the keys looked up or stored in the cache, in the
                \* order of their last hit or store, oldest first
    dirExists,  \* the concept directory embeddings/<concept> exists
    files,      \* per file name of the directory: <<>> or <<content>>
    erasCache,  \* the lru_cache of load_all_eras: <<>> or <<cached list>>
    fin,        \* input of the pure function under check
    fout,       \* its result
    fpc         \* "in" before, "out" after the function was applied

vars == <<cacheOn, cache, pc, req, tries, content, outcome, missed, inflight,
          waits, used, dirExists, files, erasCache, fin, fout, fpc>>

svcVars == <<cacheOn, cache, pc, req, tries, content, outcome, missed, inflight,
            waits, used>>
funVars == <<fin, fout, fpc>>
storeVars == <<dirExists, files, erasCache>>

Threads == 1..NumThreads

InitService ==
    /\ cacheOn \in BOOLEAN
    /\ cache = <<>>
    /\ pc = [t \in Threads |-> "idle"]
    /\ req = [t \in Threads |-> NoReq]
    /\ tries = [t \in Threads |-> <<>>]
    /\ content = [t \in Threads |-> <<>>]
    /\ outcome = [t \in Threads |-> NoOutcome]
    /\ missed = [t \in Threads |-> FALSE]
    /\ inflight = [k \in AllKeys |-> 0]
    /\ waits = [t \in Threads |-> <<>>]
    /\ used = <<>>

InitFunIdle ==
    /\ fin = <<>>
    /\ fout = <<>>
    /\ fpc = "off"

\* no concept directory yet, nothing loaded yet
InitStoreEmpty ==
    /\ dirExists = FALSE
    /\ files = [f \in FileNames |-> <<>>]
    /\ erasCache = <<>>

Init == InitService /\ InitFunIdle /\ InitStoreEmpty

\* the history of uses after key k was hit or stored
UsedNow(u, k) == SelectSeq(u, LAMBDA x : x # k) \o <<k>>

\* generate_word_evolution up to the upstream call: validation, then the
\* cache lookup; a hit parses the cached text and returns at once
Start(t, r) ==
    /\ pc[t] \in {"idle", "done"}
    /\ req' = [req EXCEPT ![t] = r]
    /\ tries' = [tries EXCEPT ![t] = <<>>]
    /\ waits' = [waits EXCEPT ![t] = <<>>]
    /\ IF ~ValidateArgs(r.word, r.eras, r.n)
       THEN /\ pc' = [pc EXCEPT ![t] = "done"]
            /\ outcome' = [outcome EXCEPT ![t] = Failed("ValueError", "validate")]
            /\ content' = [content EXCEPT ![t] = <<>>]
            /\ missed' = [missed EXCEPT ![t] = FALSE]
            /\ UNCHANGED <<cache, inflight, used>>
       ELSE IF cacheOn /\ CacheHas(cache, KeyOf(r))
       THEN /\ pc' = [pc EXCEPT ![t] = "done"]
            /\ content' = [content EXCEPT ![t] = <<CacheGet(cache, KeyOf(r))>>]
            /\ outcome' = [outcome EXCEPT
                              ![t] = Finish(CacheGet(cache, KeyOf(r)), r.eras)]
            /\ cache' = CacheTouch(cache, KeyOf(r))
            /\ used' = UsedNow(used, KeyOf(r))
            /\ missed' = [missed EXCEPT ![t] = FALSE]
            /\ UNCHANGED inflight
       ELSE /\ pc' = [pc EXCEPT ![t] = "calling"]
            /\ content' = [content EXCEPT ![t] = <<>>]
            /\ outcome' = [outcome EXCEPT ![t] = NoOutcome]
            /\ missed' = [missed EXCEPT
                             ![t] = ~\E i \in DOMAIN cache : cache[i].key = KeyOf(r)]
            /\ inflight' = [inflight EXCEPT ![KeyOf(r)] = @ + 1]
            /\ UNCHANGED <<cache, used>>
    /\ UNCHANGED <<cacheOn, funVars, storeVars>>

\* the upstream call of the current attempt returns or raises
AttemptReturn(t, resp) ==
    /\ pc[t] = "calling"
    /\ tries' = [tries EXCEPT ![t] = Append(@, resp)]
    /\ inflight' = [inflight EXCEPT ![KeyOf(req[t])] = @ - 1]
    /\ IF Classify(resp) = "ok"
       THEN /\ pc' = [pc EXCEPT ![t] = "done"]
            /\ content' = [content EXCEPT ![t] = <<resp.text>>]
            /\ cache' = IF cacheOn
                        THEN CacheInsert(cache, KeyOf(req[t]), resp.text)
                        ELSE cache
            /\ used' = IF cacheOn /\ ~(\E i \in DOMAIN cache : cache[i].key = KeyOf(req[t]))
                       THEN UsedNow(used, KeyOf(req[t]))
                       ELSE used
            /\ outcome' = [outcome EXCEPT ![t] = Finish(resp.text, req[t].eras)]
            /\ UNCHANGED waits
       ELSE IF ~RetryIf(Classify(resp)) \/ StopNow(Len(tries[t]) + 1)
       THEN /\ pc' = [pc EXCEPT ![t] = "done"]
            /\ outcome' = [outcome EXCEPT ![t] = Failed(Classify(resp), "upstream")]
            /\ UNCHANGED <<content, cache, used, waits>>
       ELSE /\ pc' = [pc EXCEPT ![t] = "backoff"]
            /\ \E d \in WaitExponential(Len(tries[t]) + 1) :
                  waits' = [waits EXCEPT ![t] = Append(@, d)]
            /\ UNCHANGED <<content, cache, outcome, used>>
    /\ UNCHANGED <<cacheOn, req, missed, funVars, storeVars>>

\* the backoff wait is over: the next attempt is issued
Retry(t) ==
    /\ pc[t] = "backoff"
    /\ pc' = [pc EXCEPT ![t] = "calling"]
    /\ inflight' = [inflight EXCEPT ![KeyOf(req[t])] = @ + 1]
    /\ UNCHANGED <<cacheOn, cache, req, tries, content, outcome, missed, waits,
                   used, funVars, storeVars>>

\* one caller at a time: the /generate-evolution endpoint is an async def that
\* calls the service synchronously, so calls made through it never overlap
Caller == 1

Next ==
    \/ \E r \in AllArgs : Start(Caller, r)
    \/ \E resp \in Responses : AttemptReturn(Caller, resp)
    \/ Retry(Caller)

Spec == Init /\ [][Next]_vars

\* ------------------------------------------------ helpers of the claims
HasText(t) == content[t] # <<>>
LastTry(t) == tries[t][Len(tries[t])]
\* an attempt that did not yield a usable text
AttemptFailed(resp) == resp.kind # "content" \/ resp.text = EmptyStr
\* an attempt that ran into the request timeout
AttemptTimedOut(resp) == resp.kind \in {"TimeoutError", "APITimeoutError"}
\* a call is being started in this step by caller t
Starts(t) == pc[t] \in {"idle", "done"} /\ <<pc[t], req[t], tries[t]>>' # <<pc[t], req[t], tries[t]>>
ArgsInvalid(r) ==
    \/ Strip(r.word) = <<>>
    \/ Len(r.eras) = 0
    \/ \E i \in 1..Len(r.eras) : Strip(r.eras[i]) = <<>>
    \/ r.n \notin 1..MAX_EXAMPLES_PER_ERA
SameKey(r1, r2) ==
    /\ Lower(Strip(r1.word)) = Lower(Strip(r2.word))
    /\ r1.eras = r2.eras
    /\ r1.n = r2.n
\* the text is one JSON object whose values are all lists of strings
IsEraMapping(v) ==
    /\ v.t = "obj"
    /\ \A i \in 1..Len(v.o) :
          /\ v.o[i].v.t = "arr"
          /\ \A j \in 1..Len(v.o[i].v.a) : v.o[i].v.a[j].t = "str"

\* C1 (as claimed): with caching enabled, after a call whose upstream attempt
\* succeeded but whose text the parser rejected, the Response Cache holds no
\* entry for the call's key.
C1_NoEntryAfterMalformed ==
    \A t \in Threads :
        (/\ cacheOn
         /\ pc[t] = "done"
         /\ tries[t] # <<>>
         /\ outcome[t] = Failed("ValueError", "parse"))
            => ~\E i \in DOMAIN cache : cache[i].key = KeyOf(req[t])

\* C2: with caching enabled, a generate call that directly follows a call with
\* the same normalized word, the same era list and the same n that had obtained
\* raw text makes no upstream call and returns (or raises) what parsing that
\* same raw text yields.
C2_SecondCallIsCacheHit ==
    [][(/\ cacheOn
        /\ pc[Caller] = "done"
        /\ HasText(Caller)
        /\ Starts(Caller)
        /\ ~ArgsInvalid(req'[Caller])
        /\ SameKey(req[Caller], req'[Caller]))
          => (/\ pc'[Caller] = "done"
              /\ tries'[Caller] = <<>>
              /\ inflight' = inflight
              /\ content'[Caller] = content[Caller]
              /\ outcome'[Caller] =
                    (LET p == ParseResponse(content[Caller][1]) IN
                     IF p.ok THEN Returned(p.data) ELSE Failed("ValueError", "parse")))]_vars

\* a call served from the cache: valid arguments, a text, no upstream attempt
C2_Witness ==
    /\ cacheOn
    /\ pc[Caller] = "done"
    /\ HasText(Caller)
    /\ tries[Caller] = <<>>
    /\ outcome[Caller].err = "none"

\* C4: a call makes at most 3 upstream attempts; every attempt but the last
\* one failed; a successful attempt ends the call with its text as the raw text;
\* the call raises an upstream failure only after a third failed attempt.
C4_AtMostThreeAttempts ==
    \A t \in Threads :
        /\ Len(tries[t]) <= 3
        /\ \A i \in 1..(Len(tries[t]) - 1) : AttemptFailed(tries[t][i])
        /\ (tries[t] # <<>> /\ ~AttemptFailed(LastTry(t)))
              => (pc[t] = "done" /\ content[t] = <<LastTry(t).text>>
                    /\ outcome[t].at \in {"return", "parse"})
        /\ (pc[t] = "done" /\ outcome[t].at = "upstream")
              => (Len(tries[t]) = 3 /\ AttemptFailed(LastTry(t)))
        /\ pc[t] = "backoff" => (Len(tries[t]) < 3 /\ AttemptFailed(LastTry(t)))
        /\ pc[t] = "calling" => Len(tries[t]) < 3

\* two failed attempts followed by a successful third one
C4_Witness ==
    /\ pc[Caller] = "done"
    /\ Len(tries[Caller]) = 3
    /\ ~AttemptFailed(tries[Caller][3])
    /\ outcome[Caller].err = "none"

\* C5 (as claimed): when all 3 attempts failed, the error raised is
\* TimeoutError if the last attempt timed out and OpenRouterError otherwise.
C5_FailureClassPreserved ==
    \A t \in Threads :
        (pc[t] = "done" /\ outcome[t].at = "upstream")
            => outcome[t].err =
                  (IF AttemptTimedOut(LastTry(t)) THEN "TimeoutError"
                   ELSE "OpenRouterError")

\* C6: an attempt that returns an empty body is an OpenRouterError: it is
\* followed by the backoff and the next attempt, or, as third attempt, raised as
\* OpenRouterError; no call ever has the empty text as its raw text and the
\* cache never stores it.
C6_EmptyBodyIsUpstreamError ==
    /\ \A i \in DOMAIN cache : cache[i].val # EmptyStr
    /\ \A t \in Threads :
          /\ content[t] # <<EmptyStr>>
          /\ (tries[t] # <<>> /\ LastTry(t) = Content(EmptyStr))
                => \/ pc[t] \in {"backoff", "calling"} /\ Len(tries[t]) < 3
                   \/ /\ pc[t] = "done"
                      /\ Len(tries[t]) = 3
                      /\ outcome[t] = Failed("OpenRouterError", "upstream")

\* an empty body was retried, and the retry returned a text
C6_Witness ==
    /\ pc[Caller] = "done"
    /\ Len(tries[Caller]) = 2
    /\ tries[Caller][1] = Content(EmptyStr)
    /\ HasText(Caller)

\* C7: a call with an invalid argument raises ValueError from the input
\* validation, makes no upstream call and leaves the cache unchanged.
C7_InvalidInputRejected ==
    [][\A t \in Threads :
          (Starts(t) /\ ArgsInvalid(req'[t]))
             => (/\ pc'[t] = "done"
                 /\ outcome'[t] = Failed("ValueError", "validate")
                 /\ tries'[t] = <<>>
                 /\ inflight' = inflight
                 /\ cache' = cache)]_vars

\* an over-large num_examples was rejected while the cache held an entry
C7_Witness ==
    /\ pc[Caller] = "done"
    /\ outcome[Caller] = Failed("ValueError", "validate")
    /\ req[Caller].n = MAX_EXAMPLES_PER_ERA + 1
    /\ Strip(req[Caller].word) # <<>>
    /\ cache # <<>>

\* C9: when the raw text is a well-formed era mapping whose keys differ from
\* the requested eras (some missing, some extra), the call returns exactly
\* that mapping.
C9_PartialResultReturned ==
    \A t \in Threads :
        (pc[t] = "done" /\ HasText(t))
            => LET j == JsonLoads(StripFence(content[t][1])) IN
               (j.ok /\ IsEraMapping(j.data) /\ JKeys(j.data) # Range(req[t].eras))
                  => outcome[t] = Returned(j.data)

\* era e requested, the response holds only era f
C9_Witness ==
    /\ pc[Caller] = "done"
    /\ req[Caller].eras = <<E1>>
    /\ outcome[Caller] = Returned(OtherEraDoc)

\* ------------------------------------------------- concurrent callers
\* the service object is a module-level singleton without a lock: callers on
\* different threads interleave at the blocking upstream call and the backoff
ConcArgs ==
    { [word |-> <<"a">>, eras |-> <<E1>>, n |-> 1],
      [word |-> <<" ", "A">>, eras |-> <<E1>>, n |-> 1],
      [word |-> <<"a">>, eras |-> <<E1>>, n |-> MAX_EXAMPLES_PER_ERA] }
ConcResponses == {Content(GoodText), Raised("APIError")}

NextConc ==
    \E t \in Threads :
        \/ \E r \in ConcArgs : Start(t, r)
        \/ \E resp \in ConcResponses : AttemptReturn(t, resp)
        \/ Retry(t)

SpecConc == Init /\ [][NextConc]_vars

\* C3 (as claimed): for every cache key at most one upstream generation call
\* is outstanding at any moment.
C3_AtMostOneOutstandingPerKey ==
    \A k \in AllKeys : inflight[k] <= 1

\* C3 (amended): the upstream calls outstanding for a key are at most one per
\* generate request for that key that is in flight and found the key missing
\* from the cache when it started.
C3_OneOutstandingPerMissedRequest ==
    \A k \in AllKeys :
        inflight[k] <= Cardinality({t \in Threads :
                                      /\ pc[t] = "calling"
                                      /\ KeyOf(req[t]) = k
                                      /\ missed[t]})

\* two requests for one key, differing in case and padding of the word, both
\* missed the cache and both have their upstream call outstanding
C3_Witness ==
    /\ cacheOn
    /\ \E k \in AllKeys : inflight[k] = 2
    /\ \E t1, t2 \in Threads :
          /\ t1 # t2
          /\ req[t1].word # req[t2].word
          /\ pc[t1] = "calling"
          /\ pc[t2] = "calling"

\* ------------------------------------------------- the parser on its own
SeqsUpTo(S, n) == UNION {[1..k -> S] : k \in 0..n}

\* responses the model may give: objects of up to two eras whose values are
\* lists (of strings, numbers, lists) or no lists, and non-object documents
ParseElems == {JStr(<<"x">>), JNum, JArr(<<>>)}
ParseVals ==
    {JArr(a) : a \in SeqsUpTo(ParseElems, MaxElems)}
        \cup {JStr(<<"x">>), JNum, JObj(<<>>)}
ParseDocs ==
    {JObj(<<>>), JArr(<<JStr(<<"x">>)>>), JStr(<<"x">>), JNum, JNull}
        \cup {JObj(<< [k |-> E1, v |-> v1] >>) : v1 \in ParseVals}
        \cup {JObj(<< [k |-> E1, v |-> v1], [k |-> E2, v |-> v2] >>) :
                 v1 \in ParseVals, v2 \in ParseVals}

\* the ways a document reaches the parser: bare, fenced with or without a
\* language tag, with blank lines, with a fence that is never closed, all on
\* one line, with trailing junk, twice
TextsOf(d) ==
    { << <<Doc(d)>> >>,
      << <<Fence, JsonTag>>, <<Doc(d)>>, <<Fence>> >>,
      << <<Fence>>, <<Doc(d)>>, <<Fence>> >>,
      << <<Fence>>, <<JsonTag>>, <<Doc(d)>>, <<Fence>> >>,
      << <<Fence>>, <<JsonTag, Doc(d)>>, <<Fence>> >>,
      << <<Fence>>, <<>>, <<JsonTag>>, <<Doc(d)>>, <<Fence>> >>,
      << <<>>, <<Fence, JsonTag>>, <<>>, <<Doc(d)>>, <<>>, <<Fence>>, <<>> >>,
      << <<Fence, JsonTag>>, <<Doc(d)>> >>,
      << <<Fence, JsonTag, Doc(d), Fence>> >>,
      << <<>>, <<Doc(d)>>, <<>> >>,
      << <<JsonTag>>, <<Doc(d)>> >>,
      << <<Doc(d), Junk>> >>,
      << <<Fence>>, <<Doc(d)>>, <<Junk>>, <<Fence>> >>,
      << <<Doc(d)>>, <<Doc(d)>> >> }
ParseTexts ==
    UNION {TextsOf(d) : d \in ParseDocs}
        \cup {EmptyStr, BadText, << <<Fence>>, <<Junk>>, <<Fence>> >>, << <<Fence>> >>}

InitParse ==
    /\ InitService
    /\ InitStoreEmpty
    /\ cacheOn
    /\ fin \in ParseTexts
    /\ fout = ParseFailure
    /\ fpc = "in"

ParseStep ==
    /\ fpc = "in"
    /\ fout' = ParseResponse(fin)
    /\ fpc' = "out"
    /\ UNCHANGED <<fin, svcVars, storeVars>>

NextParse == ParseStep

SpecParse == InitParse /\ [][NextParse]_vars

NumEmb(v) == [num |-> TRUE, v |-> v]
BadEmb == [num |-> FALSE, v |-> <<>>]

RECURSIVE Dot(_, _)
Dot(x, y) == IF x = <<>> \/ y = <<>> THEN 0 ELSE Head(x) * Head(y) + Dot(Tail(x), Tail(y))

NormSq(x) == Dot(x, x)

\* cosine_similarity of two vectors as the exact value num / sqrt(den); a
\* zero vector is left unscaled by sklearn's normalize, giving 0
Cosine(q, x) ==
    IF NormSq(q) = 0 \/ NormSq(x) = 0 THEN [num |-> 0, den |-> 1]
    ELSE [num |-> Dot(q, x), den |-> NormSq(q) * NormSq(x)]

SgnSq(a) == IF a < 0 THEN 0 - a * a ELSE a * a

\* s1 <= s2 as real numbers
ScoreLeq(s1, s2) == SgnSq(s1.num) * s2.den <= SgnSq(s2.num) * s1.den

Perms(n) == {p \in [1..n -> 1..n] : \A i, j \in 1..n : i # j => p[i] # p[j]}

\* np.argsort(sims): an ascending order of the indices; the default sort is
\* not stable, equal scores may come in any order
Argsorts(sims) ==
    {p \in Perms(Len(sims)) :
        \A i, j \in 1..Len(sims) : i < j => ScoreLeq(sims[p[i]], sims[p[j]])}

ReverseNot(p) == p

\* p[::-1]
Reverse(p) == [i \in 1..Len(p) |-> p[Len(p) + 1 - i]]

Min(a, b) == IF a < b THEN a ELSE b
Max(a, b) == IF a < b THEN b ELSE a

\* p[:k]
SliceTo(p, k) ==
    IF k >= 0 THEN SubSeq(p, 1, Min(k, Len(p)))
    ELSE SubSeq(p, 1, Max(Len(p) + k, 0))

SimReturn(out) == [raised |-> FALSE, out |-> out]
SimRaise == [raised |-> TRUE, out |-> <<>>]

Ragged(items) ==
    \E i, j \in DOMAIN items : Len(items[i].embedding.v) # Len(items[j].embedding.v)

\* the results top_similar_in_era can produce
TopSimilarInEra(query_emb, items, top_n) ==
    IF items = <<>> THEN {SimReturn(<<>>)}
    ELSE IF query_emb = <<>> THEN {SimReturn(<<>>)}
    ELSE IF \E i \in DOMAIN items : ~items[i].embedding.num THEN {SimReturn(<<>>)}
    ELSE IF Ragged(items) THEN {SimReturn(<<>>), SimRaise}
    ELSE IF Len(items[1].embedding.v) = 0 THEN {SimReturn(<<>>)}
    ELSE IF Len(query_emb) # Len(items[1].embedding.v) THEN {SimRaise}
    ELSE LET sims == [i \in DOMAIN items |-> Cosine(query_emb, items[i].embedding.v)]
             actual_top_n == Min(top_n, Len(items))
         IN {SimReturn([m \in DOMAIN SliceTo(Reverse(p), actual_top_n) |->
                          LET i == SliceTo(Reverse(p), actual_top_n)[m] IN
                          [id |-> items[i].id, text |-> items[i].text, score |-> sims[i]]])
                : p \in Argsorts(sims)}

SimEmbs == {NumEmb(<<1, 0>>), NumEmb(<<1, 1>>), NumEmb(<<0 - 1, 0>>), NumEmb(<<>>), BadEmb}
SimItems == [id : {"i1", "i2"}, text : {"t"}, embedding : SimEmbs]
SimQueries == {<<>>, <<1, 0>>, <<1, 1>>, <<1>>}

InitSim ==
    /\ InitService
    /\ InitStoreEmpty
    /\ cacheOn
    /\ fin \in [q : SimQueries, items : SeqsUpTo(SimItems, MaxItems), n : 1..(MaxItems + 1)]
    /\ fout = SimReturn(<<>>)
    /\ fpc = "in"

SimStep ==
    /\ fpc = "in"
    /\ fout' \in TopSimilarInEra(fin.q, fin.items, fin.n)
    /\ fpc' = "out"
    /\ UNCHANGED <<fin, svcVars, storeVars>>

NextSim == SimStep

SpecSim == InitSim /\ [][NextSim]_vars

\* C10: a returned result has at most min(n, len(items)) entries, in
\* descending order of score, and its entries are distinct input items, each
\* with the id, text and score of its item.
C10_TopSimilarBoundedSortedFromInput ==
    (fpc = "out" /\ ~fout.raised) =>
        /\ Len(fout.out) <= fin.n
        /\ Len(fout.out) <= Len(fin.items)
        /\ \A a, b \in 1..Len(fout.out) :
              a < b => ScoreLeq(fout.out[b].score, fout.out[a].score)
        /\ \E f \in [1..Len(fout.out) -> 1..Len(fin.items)] :
              /\ \A a, b \in 1..Len(fout.out) : a # b => f[a] # f[b]
              /\ \A a \in 1..Len(fout.out) :
                    /\ fout.out[a].id = fin.items[f[a]].id
                    /\ fout.out[a].text = fin.items[f[a]].text
                    /\ fout.out[a].score = Cosine(fin.q, fin.items[f[a]].embedding.v)

\* three items, two asked for: the two returned have different scores
C10_Witness ==
    /\ fpc = "out"
    /\ ~fout.raised
    /\ Len(fin.items) = 3
    /\ fin.n = 2
    /\ Len(fout.out) = 2
    /\ ~ScoreLeq(fout.out[1].score, fout.out[2].score)

\* position of the entry with this id in a result, 0 when it has none
PosOfId(out, id) ==
    IF \E a \in DOMAIN out : out[a].id = id
    THEN CHOOSE a \in DOMAIN out : out[a].id = id
    ELSE 0

SameScore(s1, s2) == ScoreLeq(s1, s2) /\ ScoreLeq(s2, s1)

\* C11 (as claimed): of two items with equal score the earlier one in the
\* input comes first in the result, and when only one of them is returned it
\* is the earlier one (stated for inputs whose ids are pairwise distinct).
C11_TiesInInputOrder ==
    (/\ fpc = "out"
     /\ ~fout.raised
     /\ fout.out # <<>>
     /\ \A i, j \in DOMAIN fin.items : i # j => fin.items[i].id # fin.items[j].id)
        => \A i, j \in DOMAIN fin.items :
              (/\ i < j
               /\ SameScore(Cosine(fin.q, fin.items[i].embedding.v),
                            Cosine(fin.q, fin.items[j].embedding.v))
               /\ PosOfId(fout.out, fin.items[j].id) # 0)
                  => /\ PosOfId(fout.out, fin.items[i].id) # 0
                     /\ PosOfId(fout.out, fin.items[i].id)
                           < PosOfId(fout.out, fin.items[j].id)

\* C12 (as claimed): top_similar_in_era never raises.
C12_TopSimilarNeverRaises ==
    fpc = "out" => ~fout.raised

\* ---------------------------------------------------------- drift engine
\* a centroid: None, or the mean sum / cnt of the embeddings (kept as the
\* pair, the mean of integers being no integer)
NoCentroid == [none |-> TRUE, sum |-> <<>>, cnt |-> 0]
MeanOf(sum, cnt) == [none |-> FALSE, sum |-> sum, cnt |-> cnt]

RECURSIVE VecSum(_, _)
\* the component-wise sum of the embeddings of items[1..k]
VecSum(items, k) ==
    IF k = 1 THEN items[1].embedding.v
    ELSE [d \in DOMAIN items[k].embedding.v |->
             VecSum(items, k - 1)[d] + items[k].embedding.v[d]]

CentRet(c) == [raised |-> FALSE, c |-> c]
CentRaise == [raised |-> TRUE, c |-> NoCentroid]

\* the results compute_centroid can produce
ComputeCentroid(items) ==
    IF items = <<>> THEN {CentRet(NoCentroid)}
    ELSE IF \E i \in DOMAIN items : ~items[i].embedding.num THEN {CentRet(NoCentroid)}
    ELSE IF Ragged(items) THEN {CentRet(NoCentroid), CentRaise}
    ELSE IF Len(items[1].embedding.v) = 0 THEN {CentRet(NoCentroid)}
    ELSE {CentRet(MeanOf(VecSum(items, Len(items)), Len(items)))}

\* a drift score: the literal 0.0, or 1 - cos
DriftZero == [lit |-> TRUE, cos |-> [num |-> 1, den |-> 1]]
OneMinus(c) == [lit |-> FALSE, cos |-> c]

CentroidShiftScoreNoNoneCheck(centroid_a, centroid_b) ==
    IF Len(centroid_a.sum) # Len(centroid_b.sum) THEN DriftZero
    ELSE OneMinus(Cosine(centroid_a.sum, centroid_b.sum))

\* centroid_shift_score; the cosine of two means is the cosine of their sums
CentroidShiftScore(centroid_a, centroid_b) ==
    IF centroid_a.none \/ centroid_b.none THEN DriftZero
    ELSE IF Len(centroid_a.sum) # Len(centroid_b.sum) THEN DriftZero
    ELSE OneMinus(Cosine(centroid_a.sum, centroid_b.sum))

DriftItems == [id : {"i1"}, text : {"t"}, embedding : SimEmbs]

InitDrift ==
    /\ InitService
    /\ InitStoreEmpty
    /\ cacheOn
    /\ fin \in [a : SeqsUpTo(DriftItems, MaxDriftItems),
                b : SeqsUpTo(DriftItems, MaxDriftItems)]
    /\ fout = [raised |-> FALSE, ca |-> NoCentroid, cb |-> NoCentroid, drift |-> DriftZero]
    /\ fpc = "in"

\* centroid of a, centroid of b, then the drift between the two
DriftStep ==
    /\ fpc = "in"
    /\ \E ra \in ComputeCentroid(fin.a), rb \in ComputeCentroid(fin.b) :
          fout' = IF ra.raised \/ rb.raised
                  THEN [raised |-> TRUE, ca |-> NoCentroid, cb |-> NoCentroid,
                        drift |-> DriftZero]
                  ELSE [raised |-> FALSE, ca |-> ra.c, cb |-> rb.c,
                        drift |-> CentroidShiftScore(ra.c, rb.c)]
    /\ fpc' = "out"
    /\ UNCHANGED <<fin, svcVars, storeVars>>

NextDrift == DriftStep

SpecDrift == InitDrift /\ [][NextDrift]_vars

\* C13: the centroid of an empty item set is None, and the drift is the
\* literal 0.0 whenever one of the two centroids is None.
C13_EmptyCentroidNoneDriftZero ==
    (fpc = "out" /\ ~fout.raised) =>
        /\ fin.a = <<>> => fout.ca = NoCentroid
        /\ fin.b = <<>> => fout.cb = NoCentroid
        /\ (fout.ca.none \/ fout.cb.none) => fout.drift = DriftZero

\* an empty era against an era with one item of embedding [1, 0]
C13_Witness ==
    /\ fpc = "out"
    /\ ~fout.raised
    /\ fin.a = <<>>
    /\ Len(fin.b) = 1
    /\ ~fout.cb.none
    /\ fout.drift = DriftZero

\* -------------------------------------------------------- embedding store
\* a persisted item: the keys its JSON object has, and their values
RequiredFields == {"id", "text", "embedding"}

ItemId(word, era, i) == [word |-> word, era |-> era, i |-> i]

\* SentenceTransformer.encode of one text, for the texts that occur here:
\* a fixed vector of the model's dimension for each text
Encode(text) ==
    IF text = <<"x">> THEN <<1, 0>>
    ELSE IF text = <<"y">> THEN <<1, 1>>
    ELSE IF text = <<"z">> THEN <<0 - 1, 0>>
    ELSE <<1, 0>>

WriterItemNoText(word, era, i, text) ==
    [fields |-> {"id", "era", "embedding"},
     id |-> ItemId(word, era, i), text |-> text, era |-> era,
     embedding |-> NumEmb(Encode(text))]

\* the item build_embeddings_endpoint makes of the i-th text (i from 0)
WriterItem(word, era, i, text) ==
    [fields |-> {"id", "text", "era", "embedding"},
     id |-> ItemId(word, era, i), text |-> text, era |-> era,
     embedding |-> NumEmb(Encode(text))]

\* the JSON document of an era file; json = FALSE when json.load rejects it
Record(items, count) == [json |-> TRUE, items |-> items, count |-> count]
Malformed == [json |-> FALSE, items |-> <<>>, count |-> 0]

\* the record written for one era from its example texts (JSON strings)
WriterRecord(word, era, texts) ==
    LET items == [i \in DOMAIN texts |-> WriterItem(word, era, i - 1, texts[i].s)]
    IN Record(items, Len(items))

\* isinstance(item["embedding"], (list, np.ndarray)): BadEmb stands for a
\* JSON string here
IsListEmb(e) == e.num

\* validate_item: TRUE when it raises nothing
ValidateItem(item) ==
    IF ~(RequiredFields \subseteq item.fields) THEN FALSE
    ELSE IF ~IsListEmb(item.embedding) THEN FALSE
    ELSE IF Len(item.embedding.v) = 0 THEN FALSE
    ELSE TRUE

Loaded(items) == [err |-> "none", items |-> items]
LoadFailed(cls) == [err |-> cls, items |-> <<>>]

HasRequiredFields(item) == RequiredFields \subseteq item.fields

\* load_era_items on a file (<<>> when it does not exist): validate_item's
\* failures are logged only, the returned list keeps every item that has the
\* three keys
LoadEraItems(f) ==
    IF f = <<>> THEN LoadFailed("FileNotFoundError")
    ELSE IF ~f[1].json THEN LoadFailed("EmbeddingValidationError")
    ELSE Loaded(SelectSeq(f[1].items, HasRequiredFields))

\* ord() of the characters of the file names
Ord(c) ==
    IF c = "." THEN 46
    ELSE IF c = "e" THEN 101
    ELSE IF c = "f" THEN 102
    ELSE IF c = "j" THEN 106
    ELSE IF c = "n" THEN 110
    ELSE IF c = "o" THEN 111
    ELSE IF c = "s" THEN 115
    ELSE 116

RECURSIVE LexLess(_, _)
\* a < b for Python strings
LexLess(a, b) ==
    IF b = <<>> THEN FALSE
    ELSE IF a = <<>> THEN TRUE
    ELSE IF Head(a) # Head(b) THEN Ord(Head(a)) < Ord(Head(b))
    ELSE LexLess(Tail(a), Tail(b))

RECURSIVE Sorted(_)
\* sorted(names)
Sorted(S) ==
    IF S = {} THEN <<>>
    ELSE LET m == CHOOSE x \in S : \A y \in S \ {x} : LexLess(x, y)
         IN <<m>> \o Sorted(S \ {m})

\* x.suffix == ".json"
HasJsonSuffix(name) ==
    /\ Len(name) > Len(DotJson)
    /\ SubSeq(name, Len(name) - Len(DotJson) + 1, Len(name)) = DotJson

RECURSIVE ReplaceDotJson(_)
\* fn.replace(".json", "")
ReplaceDotJson(fn) ==
    IF fn = <<>> THEN <<>>
    ELSE IF Len(fn) >= Len(DotJson) /\ SubSeq(fn, 1, Len(DotJson)) = DotJson
    THEN ReplaceDotJson(SubSeq(fn, Len(DotJson) + 1, Len(fn)))
    ELSE <<Head(fn)>> \o ReplaceDotJson(Tail(fn))

\* base.iterdir()
IterDir(fs) == {name \in DOMAIN fs : fs[name] # <<>>}

RECURSIVE LoadEach(_, _)
\* the loop of load_all_eras over the sorted file names
LoadEach(names, fs) ==
    IF names = <<>> THEN <<>>
    ELSE LET fn == Head(names)
             r == LoadEraItems(fs[fn])
         IN IF r.err = "none" /\ r.items # <<>>
            THEN <<[era |-> ReplaceDotJson(fn), items |-> r.items]>>
                     \o LoadEach(Tail(names), fs)
            ELSE LoadEach(Tail(names), fs)

ErasLoaded(eras) == [raised |-> FALSE, eras |-> eras]
ErasNotFound == [raised |-> TRUE, eras |-> <<>>]

\* the body of load_all_eras, without its cache
LoadAllErasBody(dir, fs) ==
    IF ~dir THEN ErasNotFound
    ELSE ErasLoaded(LoadEach(Sorted({x \in IterDir(fs) : HasJsonSuffix(x)}), fs))

\* load_all_eras under @lru_cache: a cached list is returned without a look
\* at the directory
LoadAllEras(dir, fs, c) ==
    IF c # <<>> THEN ErasLoaded(c[1]) ELSE LoadAllErasBody(dir, fs)

\* the cache after the call: a returned list is stored, a raise is not
LoadAllErasCache(dir, fs, c) ==
    IF c # <<>> THEN c
    ELSE IF LoadAllErasBody(dir, fs).raised THEN c
    ELSE <<LoadAllErasBody(dir, fs).eras>>

TimelineEntry(era, top, shift, centroid) ==
    [era |-> era, top |-> top, centroid_shift_from_prev |-> shift,
     centroid |-> centroid]

ShiftFromFirst(result, prev_centroid, centroid) ==
    IF result = <<>> THEN DriftZero
    ELSE CentroidShiftScore(result[1].centroid, centroid)

\* shift = centroid_shift_score(prev_centroid, centroid)
\*             if prev_centroid is not None else 0.0
ShiftFromPrev(result, prev_centroid, centroid) ==
    IF ~prev_centroid.none THEN CentroidShiftScore(prev_centroid, centroid)
    ELSE DriftZero

RECURSIVE TimelineLoop(_, _, _, _)
\* the loop of build_timeline_for_query over eras[1..k]: the possible
\* (raised, result, prev_centroid) after it; an entry keeps the centroid of
\* its era beside the three keys of the code
TimelineLoop(eras, k, query_emb, top_n) ==
    IF k = 0
    THEN {[raised |-> FALSE, result |-> <<>>, prev_centroid |-> NoCentroid]}
    ELSE UNION {
        IF st.raised THEN {st}
        ELSE {IF top.raised \/ cen.raised
              THEN [raised |-> TRUE, result |-> <<>>, prev_centroid |-> NoCentroid]
              ELSE [raised |-> FALSE,
                    result |-> Append(st.result,
                        TimelineEntry(eras[k].era, top.out,
                            ShiftFromPrev(st.result, st.prev_centroid, cen.c), cen.c)),
                    prev_centroid |-> cen.c]
                : top \in TopSimilarInEra(query_emb, eras[k].items, top_n),
                  cen \in ComputeCentroid(eras[k].items)}
        : st \in TimelineLoop(eras, k - 1, query_emb, top_n)}

TimelineResult(timeline, error) ==
    [raised |-> FALSE, timeline |-> timeline, error |-> error]
TimelineRaised == [raised |-> TRUE, timeline |-> <<>>, error |-> FALSE]

\* the results build_timeline_for_query can produce from what load_all_eras
\* gave
BuildTimelineForQuery(loaded, query_emb, top_n) ==
    IF loaded.raised THEN {TimelineResult(<<>>, TRUE)}
    ELSE IF loaded.eras = <<>> THEN {TimelineResult(<<>>, FALSE)}
    ELSE {IF st.raised THEN TimelineRaised ELSE TimelineResult(st.result, FALSE)
            : st \in TimelineLoop(loaded.eras, Len(loaded.eras), query_emb, top_n)}

\* ---------------------------------------------- store: writer and readers
StoreWord == <<"a">>
StoreReq == [word |-> StoreWord, eras |-> <<E2, E1, E3>>, n |-> 1]

\* answers of the model: every era with one text, a partial answer (era E3
\* missing, era E2 without texts), an answer without any text, and junk
FullDoc == JObj(<< [k |-> E1, v |-> JArr(<<JStr(<<"x">>)>>)],
                   [k |-> E3, v |-> JArr(<<JStr(<<"y">>)>>)],
                   [k |-> E2, v |-> JArr(<<JStr(<<"z">>)>>)] >>)
PartDoc == JObj(<< [k |-> E1, v |-> JArr(<<JStr(<<"x">>), JStr(<<"y">>)>>)],
                   [k |-> E2, v |-> JArr(<<>>)] >>)
NoTextDoc == JObj(<< [k |-> E2, v |-> JArr(<<>>)] >>)
StoreResponses ==
    {Content(<< <<Doc(d)>> >>) : d \in {FullDoc, PartDoc, NoTextDoc}}
        \cup {Content(BadText)}

\* damaged era files: items that lack a required key, items whose embedding
\* is an empty list or no list
NoFields ==
    Record(<< [fields |-> {"id", "embedding"}, id |-> ItemId(StoreWord, E3, 0),
               text |-> <<>>, era |-> E3, embedding |-> NumEmb(<<1, 1>>)] >>, 1)
BadShapes ==
    Record(<< [fields |-> {"id", "text", "era", "embedding"},
               id |-> ItemId(StoreWord, E3, 0), text |-> <<"y">>, era |-> E3,
               embedding |-> NumEmb(<<>>)],
              [fields |-> {"id", "text", "era", "embedding"},
               id |-> ItemId(StoreWord, E3, 1), text |-> <<"y">>, era |-> E3,
               embedding |-> BadEmb] >>, 2)
DamagedContents == {Malformed, NoFields, BadShapes}

InitStore ==
    /\ cacheOn \in BOOLEAN
    /\ cache = <<>>
    /\ pc = [t \in Threads |-> "idle"]
    /\ req = [t \in Threads |-> NoReq]
    /\ tries = [t \in Threads |-> <<>>]
    /\ content = [t \in Threads |-> <<>>]
    /\ outcome = [t \in Threads |-> NoOutcome]
    /\ missed = [t \in Threads |-> FALSE]
    /\ inflight = [k \in {KeyOf(StoreReq)} |-> 0]
    /\ waits = [t \in Threads |-> <<>>]
    /\ used = <<>>
    /\ InitStoreEmpty
    /\ InitFunIdle

\* evolution_data.get(era): the value of key era, JNull when absent
DataGet(data, era) ==
    IF era \in JKeys(data)
    THEN data.o[CHOOSE i \in DOMAIN data.o : data.o[i].k = era].v
    ELSE JNull

\* an era of the request gets a file when the data has texts for it
WritesEra(data, era) == era \in JKeys(data) /\ DataGet(data, era).a # <<>>

\* build_embeddings_endpoint once its generate_evolution call is over: a
\* failed generation is answered with an HTTP error; else the directory is
\* made and one record per era with texts is written
BuildEmbeddings(t) ==
    /\ pc[t] = "done"
    /\ pc' = [pc EXCEPT ![t] = "idle"]
    /\ IF outcome[t].err # "none"
       THEN UNCHANGED <<dirExists, files>>
       ELSE /\ dirExists' = TRUE
            /\ files' = [f \in FileNames |->
                  IF \E i \in DOMAIN req[t].eras :
                        /\ f = FileOf(req[t].eras[i])
                        /\ WritesEra(outcome[t].data, req[t].eras[i])
                  THEN LET era == CHOOSE e \in Range(req[t].eras) :
                                      f = FileOf(e) /\ WritesEra(outcome[t].data, e)
                       IN <<WriterRecord(req[t].word, era,
                                         DataGet(outcome[t].data, era).a)>>
                  ELSE files[f]]
    /\ UNCHANGED <<cacheOn, cache, req, tries, content, outcome, missed, inflight,
                   waits, used, erasCache, funVars>>

\* something else than the writer puts a file into the concept directory
PutFile(name, c) ==
    /\ dirExists' = TRUE
    /\ files' = [files EXCEPT ![name] = <<c>>]
    /\ UNCHANGED <<svcVars, erasCache, funVars>>

\* model.encode(concept)
QueryEmb == Encode(StoreWord)

\* a call of build_timeline_for_query(concept, query_emb, top_n)
BuildTimeline ==
    /\ fout' \in BuildTimelineForQuery(LoadAllEras(dirExists, files, erasCache),
                                       QueryEmb, DEFAULT_TOP_N)
    /\ erasCache' = LoadAllErasCache(dirExists, files, erasCache)
    /\ fpc' = "timeline"
    /\ UNCHANGED <<svcVars, dirExists, files, fin>>

EraReply(status, items, top) ==
    [status |-> status, items |-> items, top |-> top, total_items |-> Len(items)]

\* the /era endpoint: load_era_items, then top_similar_in_era
Era(era) ==
    /\ LET era_file == IF HasJsonSuffix(era) THEN era ELSE FileOf(era)
           r == LoadEraItems(files[era_file])
       IN IF r.err = "FileNotFoundError" THEN fout' = EraReply(404, <<>>, <<>>)
          ELSE IF r.err # "none" THEN fout' = EraReply(500, <<>>, <<>>)
          ELSE \E top \in TopSimilarInEra(QueryEmb, r.items, EraTopN) :
                  fout' = IF top.raised THEN EraReply(500, <<>>, <<>>)
                          ELSE EraReply(200, r.items, top.out)
    /\ fin' = era
    /\ fpc' = "era"
    /\ UNCHANGED <<svcVars, storeVars>>

NextStore ==
    \/ Start(Caller, StoreReq)
    \/ \E resp \in StoreResponses : AttemptReturn(Caller, resp)
    \/ BuildEmbeddings(Caller)
    \/ \E c \in DamagedContents : PutFile(FileOf(E3), c)
    \/ PutFile(StrayName, NoFields)
    \/ BuildTimeline
    \/ \E e \in StoreEras : Era(e)

SpecStore == InitStore /\ [][NextStore]_vars

\* a timeline was returned by the last call of build_timeline_for_query
TimelineReturned == fpc = "timeline" /\ ~fout.raised

\* C14: in a returned timeline the first entry's drift is 0.0 and each later
\* entry's drift is the drift between the centroid of the entry just before
\* it and its own centroid, the centroids being those of the eras the call
\* worked on.
C14_DriftChainsAdjacentEntries ==
    TimelineReturned =>
        \A i \in DOMAIN fout.timeline :
            /\ CentRet(fout.timeline[i].centroid)
                   \in ComputeCentroid(erasCache[1][i].items)
            /\ fout.timeline[i].centroid_shift_from_prev =
                   IF i = 1 THEN DriftZero
                   ELSE CentroidShiftScore(fout.timeline[i - 1].centroid,
                                           fout.timeline[i].centroid)

\* three entries whose three pairwise drifts differ: the third entry's drift
\* is the one against the second, not the one against the first
C14_Witness ==
    /\ TimelineReturned
    /\ Len(fout.timeline) = 3
    /\ fout.timeline[2].centroid_shift_from_prev # DriftZero
    /\ fout.timeline[3].centroid_shift_from_prev #
           fout.timeline[2].centroid_shift_from_prev
    /\ fout.timeline[3].centroid_shift_from_prev #
           CentroidShiftScore(fout.timeline[1].centroid, fout.timeline[3].centroid)

\* the era files of the directory, and those of them from which the loader
\* returns at least one item
EraFilesPresent == {f \in FileNames : HasJsonSuffix(f) /\ files[f] # <<>>}
YieldsItems(f) == LoadEraItems(files[f]).err = "none" /\ LoadEraItems(files[f]).items # <<>>
EntryEras(timeline) == {timeline[i].era : i \in DOMAIN timeline}

\* C15 (as claimed): the timeline a call returns lists the eras in strictly
\* ascending order of era-file name, with an entry for exactly the era files
\* of the directory that yield at least one loaded item.
C15_TimelineListsYieldingEraFilesInOrder ==
    [][BuildTimeline =>
          (~fout'.raised =>
              /\ \A i, j \in DOMAIN fout'.timeline :
                    i < j => LexLess(FileOf(fout'.timeline[i].era),
                                     FileOf(fout'.timeline[j].era))
              /\ \A f \in FileNames :
                    (f \in EraFilesPresent /\ YieldsItems(f))
                        <=> \E e \in EntryEras(fout'.timeline) : f = FileOf(e))]_vars

\* every item of the file fails item validation
AllItemsInvalid(f) ==
    /\ files[f] # <<>>
    /\ files[f][1].json
    /\ files[f][1].items # <<>>
    /\ \A i \in DOMAIN files[f][1].items : ~ValidateItem(files[f][1].items[i])

\* C16 (as claimed): a call that loads the directory returns no entry for an
\* era file all of whose items are invalid (a required key missing, or an
\* embedding that is empty or no list), and chains the drifts over the
\* entries that remain.
C16_AllInvalidEraHasNoEntry ==
    [][(BuildTimeline /\ erasCache = <<>>) =>
          (~fout'.raised =>
              /\ \A f \in EraFilesPresent :
                    AllItemsInvalid(f) =>
                        ~\E e \in EntryEras(fout'.timeline) : f = FileOf(e)
              /\ \A i \in DOMAIN fout'.timeline :
                    i > 1 => fout'.timeline[i].centroid_shift_from_prev =
                                 CentroidShiftScore(fout'.timeline[i - 1].centroid,
                                                    fout'.timeline[i].centroid))]_vars

\* C17 (as claimed): a call that finds no era file, the concept directory
\* being absent or holding none, returns an empty timeline with the error
\* marker and does not raise.
C17_NoEraRecordsGivesErrorMarker ==
    [][(BuildTimeline /\ erasCache = <<>> /\ EraFilesPresent = {}) =>
          (~fout'.raised /\ fout'.timeline = <<>> /\ fout'.error)]_vars

\* C18 (as claimed): when the /era endpoint loads an era file, the loaded
\* list is exactly the persisted items that pass validate_item (the three
\* keys present, the embedding a non-empty list), in their order.
C18_LoadReturnsExactlyValidItems ==
    [][\A e \in StoreEras :
          (Era(e) /\ fout'.status = 200) =>
              fout'.items = SelectSeq(files[FileOf(e)][1].items, ValidateItem)]_vars

\* C19: each record the writer writes from a non-empty list of texts loads
\* back as one item per text, in the order of the texts, each with id, text
\* and embedding present and being the item of the file at that place, and
\* the record's count is the number of its items.
C19_WrittenRecordLoadsBack ==
    [][(BuildEmbeddings(Caller) /\ outcome[Caller].err = "none") =>
          \A n \in DOMAIN req[Caller].eras :
              LET era == req[Caller].eras[n]
                  texts == DataGet(outcome[Caller].data, era).a
                  f == files'[FileOf(era)]
                  r == LoadEraItems(f)
              IN (era \in JKeys(outcome[Caller].data) /\ texts # <<>>) =>
                    /\ f # <<>>
                    /\ r.err = "none"
                    /\ Len(r.items) = Len(texts)
                    /\ r.items = f[1].items
                    /\ f[1].count = Len(f[1].items)
                    /\ \A k \in DOMAIN texts :
                          /\ RequiredFields \subseteq r.items[k].fields
                          /\ r.items[k].text = texts[k].s
                          /\ r.items[k].id = ItemId(req[Caller].word, era, k - 1)]_vars

\* the writer wrote era E1 from two texts, and the /era endpoint then loaded
\* both items in the order of the texts
C19_Witness ==
    /\ fpc = "era"
    /\ fin = E1
    /\ fout.status = 200
    /\ files[FileOf(E1)] # <<>>
    /\ files[FileOf(E1)][1].count = 2
    /\ fout.total_items = 2
    /\ fout.items[1].text = <<"x">>
    /\ fout.items[2].text = <<"y">>

\* -------------------------------------------------- the cache at capacity
NumLruKeys == CacheMaxSize + ExtraKeys

\* the j-th of NumLruKeys requests with pairwise different keys: words "a",
\* "aa", ..., each with every allowed number of examples
LruReq(j) ==
    [word |-> [i \in 1..((j - 1) \div MAX_EXAMPLES_PER_ERA + 1) |-> "a"],
     eras |-> <<E1>>,
     n |-> ((j - 1) % MAX_EXAMPLES_PER_ERA) + 1]

InitLRU ==
    /\ cacheOn = TRUE
    /\ cache = <<>>
    /\ pc = [t \in Threads |-> "idle"]
    /\ req = [t \in Threads |-> NoReq]
    /\ tries = [t \in Threads |-> <<>>]
    /\ content = [t \in Threads |-> <<>>]
    /\ outcome = [t \in Threads |-> NoOutcome]
    /\ missed = [t \in Threads |-> FALSE]
    /\ inflight = [k \in {KeyOf(LruReq(j)) : j \in 1..NumLruKeys} |-> 0]
    /\ waits = [t \in Threads |-> <<>>]
    /\ used = <<>>
    /\ InitStoreEmpty
    /\ InitFunIdle

\* calls with a key not requested before, taken in the order of LruReq, and
\* at any time a call with the first key again; every upstream call answers
NextLRU ==
    \/ /\ Len(used) < NumLruKeys
       /\ Start(Caller, LruReq(Len(used) + 1))
    \/ Start(Caller, LruReq(1))
    \/ AttemptReturn(Caller, Content(GoodText))

SpecLRU == InitLRU /\ [][NextLRU]_vars

CachedKeys(c) == {c[i].key : i \in DOMAIN c}
LastUse(k) == CHOOSE i \in DOMAIN used : used[i] = k
\* the cached key whose last hit or store lies furthest back
LeastRecentlyUsed ==
    CHOOSE k \in CachedKeys(cache) :
        \A k2 \in CachedKeys(cache) : LastUse(k) <= LastUse(k2)

\* C20: the cache never holds more than CacheMaxSize entries, and a store
\* into a full cache drops exactly the cached key whose last use (hit or
\* store) is the oldest.
C20_BoundedAndEvictsLeastRecentlyUsed ==
    [][/\ Len(cache') <= CacheMaxSize
       /\ (Len(cache) = CacheMaxSize /\ ~(CachedKeys(cache') \subseteq CachedKeys(cache)))
             => CachedKeys(cache) \ CachedKeys(cache') = {LeastRecentlyUsed}]_vars

\* the cache is full, the first key was hit before the store that overflowed
\* it, and so the second key was dropped and the first one kept
C20_Witness ==
    /\ Len(cache) = CacheMaxSize
    /\ CacheHas(cache, KeyOf(LruReq(1)))
    /\ CacheHas(cache, KeyOf(LruReq(CacheMaxSize + 1)))
    /\ ~CacheHas(cache, KeyOf(LruReq(2)))
    /\ \E i \in DOMAIN used : used[i] = KeyOf(LruReq(2))
    /\ cache[1].key = KeyOf(LruReq(3))

\* ------------------------------------------------------- termination
\* every upstream attempt returns or raises within the client's timeout, and
\* every backoff wait ends
SpecLive ==
    /\ Init
    /\ [][Next]_vars
    /\ WF_vars(\E resp \in Responses : AttemptReturn(Caller, resp))
    /\ WF_vars(Retry(Caller))

\* what a finished call gave its caller is a mapping, or one of the four
\* error classes at the place that raises it
KnownOutcome(o, attempts) ==
    \/ o.at = "return" /\ o.err = "none" /\ o.data.t = "obj"
    \/ o.at = "validate" /\ o.err = "ValueError" /\ attempts = 0
    \/ o.at = "parse" /\ o.err = "ValueError"
    \/ o.at = "upstream" /\ o.err \in {"OpenRouterError", "TimeoutError"}

\* C21: every call that went upstream ends; a finished call has returned a
\* mapping or raised ValueError (invalid input, malformed response),
\* OpenRouterError or TimeoutError, after at most 3 upstream attempts.
C21_CallEndsWithMappingOrKnownError ==
    /\ [](\A t \in Threads :
             pc[t] = "done" =>
                 (Len(tries[t]) <= StopAfterAttempt
                     /\ KnownOutcome(outcome[t], Len(tries[t]))))
    /\ \A t \in Threads : (pc[t] \in {"calling", "backoff"}) ~> (pc[t] = "done")

\* a call ended by the SDK's timeout on its third attempt
C21_Witness ==
    /\ pc[Caller] = "done"
    /\ Len(tries[Caller]) = StopAfterAttempt
    /\ LastTry(Caller).kind = "APITimeoutError"
    /\ outcome[Caller].at = "upstream"

\* ------------------------------------------------------------ cache keys
\* era E2 spelt with a trailing blank
E2Blank == <<"f", " ">>

\* requests that differ in the case of the word and the blanks around it, in
\* the order of the eras, in the spelling of an era, in the number of examples
KeyArgs ==
    { [word |-> <<"a">>, eras |-> <<E1, E2>>, n |-> 1],
      [word |-> <<"A">>, eras |-> <<E1, E2>>, n |-> 1],
      [word |-> <<" ", "A", " ">>, eras |-> <<E1, E2>>, n |-> 1],
      [word |-> <<"a">>, eras |-> <<E2, E1>>, n |-> 1],
      [word |-> <<"a">>, eras |-> <<E1, E2Blank>>, n |-> 1],
      [word |-> <<"a">>, eras |-> <<E1, E2>>, n |-> 2] }
KeyResponses == {Content(GoodText), Content(OtherEraText)}

InitKeys ==
    /\ cacheOn = TRUE
    /\ cache = <<>>
    /\ pc = [t \in Threads |-> "idle"]
    /\ req = [t \in Threads |-> NoReq]
    /\ tries = [t \in Threads |-> <<>>]
    /\ content = [t \in Threads |-> <<>>]
    /\ outcome = [t \in Threads |-> NoOutcome]
    /\ missed = [t \in Threads |-> FALSE]
    /\ inflight = [k \in {KeyOf(r) : r \in KeyArgs} |-> 0]
    /\ waits = [t \in Threads |-> <<>>]
    /\ used = <<>>
    /\ InitStoreEmpty
    /\ InitFunIdle

NextKeys ==
    \/ \E r \in KeyArgs : Start(Caller, r)
    \/ \E resp \in KeyResponses : AttemptReturn(Caller, resp)

SpecKeys == InitKeys /\ [][NextKeys]_vars

\* the last call found no entry for its key, went upstream and got a text
PrevCallStored(t) ==
    /\ pc[t] = "done"
    /\ missed[t]
    /\ tries[t] # <<>>
    /\ HasText(t)

\* C22: a call that follows a call which stored its text is served from the
\* cache, with no upstream call, when its word differs from that call's word
\* in case and surrounding blanks only and its eras and number of examples
\* are the same; when the earlier call's entry is the only one and the eras
\* differ in order or spelling, or the number differs, it goes upstream.
C22_KeyIsNormalizedWordErasAndCount ==
    [][(PrevCallStored(Caller) /\ Starts(Caller) /\ ~ArgsInvalid(req'[Caller])) =>
          /\ SameKey(req[Caller], req'[Caller]) =>
                (/\ pc'[Caller] = "done"
                 /\ tries'[Caller] = <<>>
                 /\ inflight' = inflight
                 /\ content'[Caller] = content[Caller])
          /\ (Len(cache) = 1 /\ ~SameKey(req[Caller], req'[Caller])) =>
                (/\ pc'[Caller] = "calling"
                 /\ \E k \in DOMAIN inflight : inflight'[k] = inflight[k] + 1)]_vars

\* entries for both orders of the eras, and a call with the word " A "
\* served from the entry that a call with the word "a" stored
C22_Witness ==
    /\ Len(cache) = 2
    /\ cache[1].key = [word |-> <<"a">>, eras |-> <<E2, E1>>, n |-> 1]
    /\ cache[2].key = [word |-> <<"a">>, eras |-> <<E1, E2>>, n |-> 1]
    /\ cache[1].val # cache[2].val
    /\ pc[Caller] = "done"
    /\ req[Caller].word = <<" ", "A", " ">>
    /\ tries[Caller] = <<>>
    /\ content[Caller] = <<cache[2].val>>

\* ------------------------------------------------- failures and the cache
\* this step is an upstream attempt of the caller that failed
FailedAttemptStep(t) ==
    /\ Len(tries'[t]) = Len(tries[t]) + 1
    /\ AttemptFailed(tries'[t][Len(tries'[t])])

\* C23: no step of a call whose attempts fail changes the cache (neither the
\* lookup that missed, nor a failed attempt, nor a retry), and the call that
\* follows a call which raised after its last failed attempt, with the same
\* key, goes upstream again.
C23_FailureLeavesCacheAndIsNotReplayed ==
    [][/\ FailedAttemptStep(Caller) => cache' = cache
       /\ (Starts(Caller) /\ pc'[Caller] = "calling") => cache' = cache
       /\ (pc[Caller] = "backoff" /\ pc'[Caller] = "calling") => cache' = cache
       /\ (/\ pc[Caller] = "done"
           /\ outcome[Caller].at = "upstream"
           /\ Starts(Caller)
           /\ SameKey(req[Caller], req'[Caller]))
             => (/\ pc'[Caller] = "calling"
                 /\ tries'[Caller] = <<>>
                 /\ outcome'[Caller] = NoOutcome
                 /\ \E k \in DOMAIN inflight : inflight'[k] = inflight[k] + 1)]_vars

\* with caching on, a call has raised after three failed attempts; the cache
\* still holds the entry of an earlier call and none for this call's key
C23_Witness ==
    /\ cacheOn
    /\ pc[Caller] = "done"
    /\ outcome[Caller].at = "upstream"
    /\ Len(tries[Caller]) = StopAfterAttempt
    /\ \A i \in DOMAIN tries[Caller] : AttemptFailed(tries[Caller][i])
    /\ Len(cache) = 1
    /\ ~SameKey([word |-> cache[1].key.word, eras |-> cache[1].key.eras,
                 n |-> cache[1].key.n], req[Caller])

\* -------------------------------------------------------- backoff delays
\* C24 (as claimed): every delay before a retry lies between 2 and 10
\* seconds, and the delay before the third attempt is greater than the delay
\* before the second attempt.
C24_DelaysBoundedAndIncreasing ==
    \A t \in Threads :
        /\ \A i \in DOMAIN waits[t] : WaitMin <= waits[t][i] /\ waits[t][i] <= WaitMax
        /\ Len(waits[t]) >= 2 => waits[t][2] > waits[t][1]

\* ------------------------------------------------- timeline after writes
\* C25 (as claimed): whatever was written before it, a call of
\* build_timeline_for_query returns what building the timeline from the
\* directory and the era files as they are at the call gives.
C25_TimelineReflectsPersistedRecords ==
    [][BuildTimeline =>
          fout' \in BuildTimelineForQuery(LoadAllErasBody(dirExists, files),
                                          QueryEmb, DEFAULT_TOP_N)]_vars

====
